---- MODULE Spec2Model ----
(***************************************************************************)
(* The Report page component (src/unnamed/part_000) and the query client   *)
(* it runs under (src/src/main.tsx), as a state machine.                   *)
(*                                                                         *)
(* One behaviour is the life of one mounted instance of <Report mode=..>:  *)
(* the props and the route parameter are fixed by Init, every later step   *)
(* is one event-loop callback (a user event, a network completion, or a    *)
(* React commit).                                                          *)
(*                                                                         *)
(* The image preview overlay (selectedImage) and the copy-to-clipboard     *)
(* button are left out: they write only selectedImage, the clipboard and a *)
(* "Copied" toast, and nothing modelled here reads those.                  *)
(***************************************************************************)
EXTENDS Integers, Sequences, FiniteSets, TLC

\* ---------------------------------------------------------------- bounds
\* File objects ever handed to the dropzone by the user; one drop delivers any
\* number of them (none when accept: image/* rejected every file).
MaxFiles == 2
\* Clicks on the submit button, or on the approve and reject buttons together.
MaxClicks == 2

\* ------------------------------------------------------------ vocabulary
Modes == {"new", "edit", "view"}
NoId == "undefined"
Ids == {"42"}
Fields == {"title", "description", "cve"}
\* A field of a fetched report may be absent (undefined/null).
Missing == "<missing>"
Strings == {"", "a"}
FieldVals == Strings \cup {Missing}
Kinds == {"create", "update", "approve", "reject"}
Home == "/"
Back == "-1"

VARIABLES
  mode,          \* prop `mode`                                   (line 19, 22)
  id,            \* useParams().id                                (line 23)
  screen,        \* what the last render returned: "spinner" | "form" | "crashed" | "gone"
  query,         \* useReport status: "idle" | "loading" | "success" | "error"
  fetches,       \* GET requests issued by useReport
  report,        \* useReport data: <<>> (undefined) or <<r>>
  initialValues, \* Formik initialValues: <<>> (undefined) or <<r>>
  values,        \* Formik values
  errors,        \* Formik errors: the fields carrying the message "Required"
  submitCount,   \* Formik submitCount: submit attempts so far
  images,        \* useState images, as committed by the last render
  pending,       \* files appended by queued updater functions, not yet rendered
  dropped,       \* File objects created so far (each drop delivers fresh ones)
  status,        \* per mutation hook: "idle" | "loading" | "success" | "error"
  calls,         \* per mutation hook: number of mutate() calls
  lastCall,      \* the most recent mutate() call: <<>> or <<[kind, id, payload]>>
  navs,          \* navigate() calls, in order
  toasts,        \* toast calls so far, per level (toast.error, toast.success)
  console,       \* console.error calls so far, per message
  expected       \* reference image list: the add/remove operations applied in order

vars == <<mode, id, screen, query, fetches, report, initialValues, values, errors,
          submitCount, images, pending, dropped, status, calls,
          lastCall, navs, toasts, console, expected>>

formVars == <<values, errors, submitCount>>
imageVars == <<images, pending, dropped, expected>>
queryVars == <<query, fetches, report, initialValues>>
mutVars == <<status, calls, lastCall>>
effectVars == <<navs, toasts, console>>
propVars == <<mode, id>>

\* ---------------------------------------------------------- pure helpers
EmptyValues == [title |-> "", description |-> "", cve |-> ""]

\* The reports the backend may answer with: a complete one, and one with a
\* field absent and a field empty.
Reports ==
  {[title |-> "a", description |-> "a", cve |-> "a"],
   [title |-> Missing, description |-> "a", cve |-> ""]}

\* Mutant of QueryRetry: the library default (retry on).
QueryRetryOn == TRUE

\* main.tsx: defaultOptions.queries.retry
QueryRetry == FALSE

\* react-query retries a failed query three times when retry is true.
RetryLimit == IF QueryRetry THEN 3 ELSE 0

\* useReport(id, mode !== "new" && !!id): the enabled flag.
QueryEnabled(m, i) == m # "new" /\ i # NoId

\* const initialValues = mode === "new" ? {title: "", ...} : report
InitialValuesOf(m, rep) == IF m = "new" THEN <<EmptyValues>> ELSE rep

\* Mutant of Validate: the schema forgets the cve rule.
ValidateWithoutCve(v) == {f \in {"title", "description"} : v[f] = Missing \/ v[f] = ""}

\* Yup.string().required("Required") on each of the three fields: the set of
\* fields that get the message.
Validate(v) == {f \in Fields : v[f] = Missing \/ v[f] = ""}

\* images.filter((_, i) => i !== index), index counted from 1 here.
FilterOut(s, index) ==
  [k \in 1..(Len(s) - 1) |-> IF k < index THEN s[k] ELSE s[k + 1]]

\* What the component returns once isLoading is false: Formik's render prop
\* reads values.title, which throws when initialValues is undefined.
Rendered(loading, init) ==
  IF loading THEN "spinner" ELSE IF init = <<>> THEN "crashed" ELSE "form"

\* ------------------------------------------------------------- rendering
\* <Field disabled={mode === "view"}>
FieldDisabled(m) == m = "view"

\* Mutant of SubmitShown: the submit button is rendered in every mode.
SubmitShownAlways(m) == TRUE

\* {mode != "view" && <Button type="submit" .../>}
SubmitShown(m) == m # "view"

\* Mutant of ReviewShown: the approve/reject buttons are rendered in every mode.
ReviewShownAlways(m) == TRUE

\* {mode === "view" && <div> approve / reject buttons </div>}
ReviewShown(m) == m = "view"

\* The dropzone and the image list sit outside both mode guards.
DropzoneShown(m) == m \in Modes

\* loading={createLoading || updateLoading}
SubmitLoading == status["create"] = "loading" \/ status["update"] = "loading"

\* loading={approveLoading}
ApproveLoading == status["approve"] = "loading"

\* loading={rejectLoading}
RejectLoading == status["reject"] = "loading"

\* Button (components/button): a button whose loading flag is set takes no click.
ButtonEnabled(loading) == ~loading

\* ------------------------------------------------------------------ Init
Init ==
  /\ mode \in Modes
  /\ id \in Ids \cup {NoId}
  /\ query = IF QueryEnabled(mode, id) THEN "loading" ELSE "idle"
  /\ fetches = IF QueryEnabled(mode, id) THEN 1 ELSE 0
  /\ report = <<>>
  /\ screen = Rendered(query = "loading", InitialValuesOf(mode, report))
  /\ initialValues = IF screen = "form" THEN InitialValuesOf(mode, report) ELSE <<>>
  /\ values = EmptyValues
  /\ errors = {}
  /\ submitCount = 0
  /\ images = <<>>
  /\ pending = <<>>
  /\ dropped = 0
  /\ status = [k \in Kinds |-> "idle"]
  /\ calls = [k \in Kinds |-> 0]
  /\ lastCall = <<>>
  /\ navs = <<>>
  /\ toasts = [level \in {"error", "success"} |-> 0]
  /\ console = [t \in {"Approval error:", "Rejection error:"} |-> 0]
  /\ expected = <<>>

\* ------------------------------------------------------------------ load
\* useReport resolves: isLoading turns false and the form is rendered for the
\* first time, Formik taking initialValues.
FetchSucceeds(r) ==
  /\ screen = "spinner" /\ query = "loading"
  /\ query' = "success"
  /\ report' = <<r>>
  /\ initialValues' = InitialValuesOf(mode, report')
  /\ screen' = Rendered(FALSE, initialValues')
  /\ values' = r
  /\ UNCHANGED <<fetches, errors, submitCount>>
  /\ UNCHANGED <<propVars, imageVars, mutVars, effectVars>>

\* useReport rejects: retried while the client's retry option allows, else the
\* query ends in error with data undefined and the component renders with
\* initialValues undefined.
FetchFails ==
  /\ screen = "spinner" /\ query = "loading"
  /\ IF fetches - 1 < RetryLimit
       THEN /\ fetches' = fetches + 1
            /\ UNCHANGED <<query, screen>>
       ELSE /\ query' = "error"
            /\ screen' = Rendered(FALSE, InitialValuesOf(mode, report))
            /\ UNCHANGED fetches
  /\ UNCHANGED <<report, initialValues>>
  /\ UNCHANGED <<propVars, formVars, imageVars, mutVars, effectVars>>

\* ------------------------------------------------------------ form input
\* Typing into a Field: Formik sets the value and validates (validateOnChange).
SetField(f, s) ==
  /\ screen = "form"
  /\ ~FieldDisabled(mode)
  /\ values' = [values EXCEPT ![f] = s]
  /\ errors' = Validate(values')
  /\ UNCHANGED <<screen, submitCount>>
  /\ UNCHANGED <<propVars, queryVars, imageVars, mutVars, effectVars>>

\* ---------------------------------------------------------------- images
\* handleImageDrop(acceptedFiles): setImages(prev => [...prev, ...acceptedFiles]).
\* The updater is queued; it runs at the next render.
handleImageDrop(n) ==
  /\ screen = "form"
  /\ DropzoneShown(mode)
  /\ dropped + n <= MaxFiles
  /\ LET batch == [k \in 1..n |-> dropped + k]
     IN /\ pending' = pending \o batch
        /\ expected' = expected \o batch
  /\ dropped' = dropped + n
  /\ UNCHANGED <<screen, images>>
  /\ UNCHANGED <<propVars, queryVars, formVars, mutVars, effectVars>>

\* React renders the component: the queued updaters run on the state.
Commit ==
  /\ screen = "form"
  /\ pending # <<>>
  /\ images' = images \o pending
  /\ pending' = <<>>
  /\ UNCHANGED <<screen, dropped, expected>>
  /\ UNCHANGED <<propVars, queryVars, formVars, mutVars, effectVars>>

\* handleImageRemove(index): setImages(images.filter((_, i) => i !== index)),
\* `images` being the list of the render that created the handler. The value
\* replaces whatever the updaters queued before it would have produced.
handleImageRemove(index) ==
  /\ screen = "form"
  /\ DropzoneShown(mode)
  /\ index \in 1..Len(images)
  /\ images' = FilterOut(images, index)
  /\ pending' = <<>>
  /\ expected' = FilterOut(expected, index)
  /\ UNCHANGED <<screen, dropped>>
  /\ UNCHANGED <<propVars, queryVars, formVars, mutVars, effectVars>>

\* ------------------------------------------------------------- mutations
\* The identifier a mutation hook was created with: useCreateReport() takes
\* none, the other three take id.
HookId(kind) == IF kind = "create" THEN NoId ELSE id

\* mutate(variables, callbacks) of the hook `kind`.
Mutate(kind, variables) ==
  /\ status' = [status EXCEPT ![kind] = "loading"]
  /\ calls' = [calls EXCEPT ![kind] = @ + 1]
  /\ lastCall' = <<[kind |-> kind, id |-> HookId(kind), variables |-> variables]>>

\* Mutant of SubmitKind: the mode test is dropped.
SubmitKindAlwaysCreate(m) == "create"

\* if (mode === "new") createMutation(...) else updateMutation(...)
SubmitKind(m) == IF m = "new" THEN "create" ELSE "update"

\* const formData = { ...values, images }
FormData(v, imgs) == [values |-> v, images |-> imgs]

\* handleSubmit(values)
handleSubmit(v) == Mutate(SubmitKind(mode), <<FormData(v, images)>>)

\* A submit of the <Form>: Formik counts the attempt, validates against
\* validationSchema and calls onSubmit only when no field has an error.
SubmitForm ==
  /\ screen = "form"
  /\ SubmitShown(mode)
  /\ ButtonEnabled(SubmitLoading)
  /\ submitCount < MaxClicks
  /\ submitCount' = submitCount + 1
  /\ errors' = Validate(values)
  /\ IF errors' = {} THEN handleSubmit(values) ELSE UNCHANGED mutVars
  /\ UNCHANGED <<screen, values>>
  /\ UNCHANGED <<propVars, queryVars, imageVars, effectVars>>

\* onSuccess of createMutation / updateMutation: navigate("/")
SubmitSucceeds(kind) ==
  /\ screen = "form"
  /\ kind \in {"create", "update"}
  /\ status[kind] = "loading"
  /\ status' = [status EXCEPT ![kind] = "success"]
  /\ navs' = Append(navs, Home)
  /\ UNCHANGED <<screen, calls, lastCall, toasts, console>>
  /\ UNCHANGED <<propVars, queryVars, formVars, imageVars>>

\* Mutant of SubmitFails: the navigation is done on settle, not on success.
SubmitFailsNavigates(kind) ==
  /\ screen = "form"
  /\ kind \in {"create", "update"}
  /\ status[kind] = "loading"
  /\ status' = [status EXCEPT ![kind] = "error"]
  /\ navs' = Append(navs, Home)
  /\ UNCHANGED <<screen, calls, lastCall, toasts, console>>
  /\ UNCHANGED <<propVars, queryVars, formVars, imageVars>>

\* createMutation / updateMutation fails: handleSubmit passes no onError.
SubmitFails(kind) ==
  /\ screen = "form"
  /\ kind \in {"create", "update"}
  /\ status[kind] = "loading"
  /\ status' = [status EXCEPT ![kind] = "error"]
  /\ UNCHANGED <<screen, calls, lastCall>>
  /\ UNCHANGED <<propVars, queryVars, formVars, imageVars, effectVars>>

\* handleApprove: approveMutation(undefined, {onSuccess, onError})
handleApprove ==
  /\ screen = "form"
  /\ ReviewShown(mode)
  /\ ButtonEnabled(ApproveLoading)
  /\ calls["approve"] + calls["reject"] < MaxClicks
  /\ Mutate("approve", <<>>)
  /\ UNCHANGED screen
  /\ UNCHANGED <<propVars, queryVars, formVars, imageVars, effectVars>>

\* handleApprove's onSuccess: navigate(-1)
ApproveSucceeds ==
  /\ screen = "form"
  /\ status["approve"] = "loading"
  /\ status' = [status EXCEPT !["approve"] = "success"]
  /\ navs' = Append(navs, Back)
  /\ UNCHANGED <<screen, calls, lastCall, toasts, console>>
  /\ UNCHANGED <<propVars, queryVars, formVars, imageVars>>

\* Mutant of ApproveOnError: the error is logged only.
ApproveOnErrorSilent ==
  /\ console' = [console EXCEPT !["Approval error:"] = @ + 1]
  /\ UNCHANGED toasts

\* handleApprove's onError: console.error and toast.error("Approval failed")
ApproveOnError ==
  /\ console' = [console EXCEPT !["Approval error:"] = @ + 1]
  /\ toasts' = [toasts EXCEPT !["error"] = @ + 1]

ApproveFails ==
  /\ screen = "form"
  /\ status["approve"] = "loading"
  /\ status' = [status EXCEPT !["approve"] = "error"]
  /\ ApproveOnError
  /\ UNCHANGED <<screen, calls, lastCall, navs>>
  /\ UNCHANGED <<propVars, queryVars, formVars, imageVars>>

\* handleReject: rejectMutation(undefined, {onSuccess, onError})
handleReject ==
  /\ screen = "form"
  /\ ReviewShown(mode)
  /\ ButtonEnabled(RejectLoading)
  /\ calls["approve"] + calls["reject"] < MaxClicks
  /\ Mutate("reject", <<>>)
  /\ UNCHANGED screen
  /\ UNCHANGED <<propVars, queryVars, formVars, imageVars, effectVars>>

\* handleReject's onSuccess: navigate(-1)
RejectSucceeds ==
  /\ screen = "form"
  /\ status["reject"] = "loading"
  /\ status' = [status EXCEPT !["reject"] = "success"]
  /\ navs' = Append(navs, Back)
  /\ UNCHANGED <<screen, calls, lastCall, toasts, console>>
  /\ UNCHANGED <<propVars, queryVars, formVars, imageVars>>

\* Mutant of RejectOnError: the error is also shown, as handleApprove does.
RejectOnErrorToasts ==
  /\ console' = [console EXCEPT !["Rejection error:"] = @ + 1]
  /\ toasts' = [toasts EXCEPT !["error"] = @ + 1]

\* handleReject's onError: console.error only
RejectOnError ==
  /\ console' = [console EXCEPT !["Rejection error:"] = @ + 1]
  /\ UNCHANGED toasts

RejectFails ==
  /\ screen = "form"
  /\ status["reject"] = "loading"
  /\ status' = [status EXCEPT !["reject"] = "error"]
  /\ RejectOnError
  /\ UNCHANGED <<screen, calls, lastCall, navs>>
  /\ UNCHANGED <<propVars, queryVars, formVars, imageVars>>

\* The router commits the route change a navigate() asked for: the component
\* unmounts, its mutation observers unsubscribe and no callback runs any more.
Unmount ==
  /\ screen = "form"
  /\ navs # <<>>
  /\ screen' = "gone"
  /\ UNCHANGED <<propVars, queryVars, formVars, imageVars, mutVars, effectVars>>

\* ------------------------------------------------------------------ spec
Next ==
  \/ \E r \in Reports : FetchSucceeds(r)
  \/ FetchFails
  \/ \E f \in Fields, s \in Strings : SetField(f, s)
  \/ \E n \in 0..MaxFiles : handleImageDrop(n)
  \/ Commit
  \/ \E i \in 1..MaxFiles : handleImageRemove(i)
  \/ SubmitForm
  \/ \E k \in {"create", "update"} : SubmitSucceeds(k)
  \/ \E k \in {"create", "update"} : SubmitFails(k)
  \/ handleApprove
  \/ ApproveSucceeds
  \/ ApproveFails
  \/ handleReject
  \/ RejectSucceeds
  \/ RejectFails
  \/ Unmount

Spec == Init /\ [][Next]_vars

\* ---------------------------------------------------------------- claims
\* The required fields of v that are empty or missing.
Blank(v) == {f \in Fields : v[f] \in {"", Missing}}

\* Mutations in flight.
InFlight == {k \in Kinds : status[k] = "loading"}

Dispatches(k) == calls'[k] = calls[k] + 1
Succeeds(k) == status[k] = "loading" /\ status'[k] = "success"
Fails(k) == status[k] = "loading" /\ status'[k] = "error"
SubmitCalls == calls["create"] + calls["update"]
ReviewCalls == calls["approve"] + calls["reject"]

\* C1: a submit attempt with an empty or missing title, description or cve is
\* blocked: no create/update is dispatched, nothing navigates, and every empty
\* field carries a validation message; create/update is dispatched only from
\* a form whose three fields are non-empty.
C1_BlankSubmitBlocked ==
  [][ /\ (submitCount' = submitCount + 1 /\ Blank(values) # {}) =>
           /\ calls' = calls /\ status' = status /\ lastCall' = lastCall
           /\ navs' = navs
           /\ errors' = Blank(values)
      /\ (Dispatches("create") \/ Dispatches("update")) => Blank(values) = {}
    ]_vars

C1_Witness ==
  /\ submitCount > 0 /\ SubmitCalls = 0
  /\ "cve" \in errors /\ values["title"] = "a" /\ values["description"] = "a"

\* C2: after any sequence of drops and removals the image list (the queued
\* appends included) is the reference list: the same operations applied in
\* order to a plain list.
C2_ImagesMatchReference == images \o pending = expected

C4_SubmitLifecycle ==
  [][ /\ (Dispatches("create") \/ Dispatches("update")) => SubmitLoading'
      /\ \A k \in {"create", "update"} :
           /\ Succeeds(k) => navs' = Append(navs, Home)
           /\ Fails(k) =>
                /\ navs' = navs /\ toasts' = toasts /\ console' = console
                /\ values' = values /\ images' = images /\ pending' = pending
                /\ screen' = "form" /\ ~SubmitLoading'
      /\ (navs' # navs /\ navs'[Len(navs')] = Home) =>
           Succeeds("create") \/ Succeeds("update")
    ]_vars

C4_Witness ==
  /\ status["update"] = "error" /\ navs = <<>> /\ screen = "form"
  /\ calls["update"] = 2

\* C5: an approve click calls the approve mutation of the route id; its
\* success navigates back one entry and shows nothing; its failure does not
\* navigate, logs the error and shows exactly one error notification.
C5_Approve ==
  [][ /\ Dispatches("approve") =>
           /\ mode = "view" /\ id \in Ids
           /\ lastCall' = <<[kind |-> "approve", id |-> id, variables |-> <<>>]>>
      /\ Succeeds("approve") =>
           navs' = Append(navs, Back) /\ toasts' = toasts /\ console' = console
      /\ Fails("approve") =>
           /\ navs' = navs
           /\ console' = [console EXCEPT !["Approval error:"] = @ + 1]
           /\ toasts' = [toasts EXCEPT !["error"] = @ + 1]
    ]_vars

C5_Witness ==
  /\ status["approve"] = "error" /\ toasts["error"] = 1
  /\ console["Approval error:"] = 1 /\ navs = <<>>

\* C6: a reject click calls the reject mutation of the route id; its success
\* navigates back one entry; its failure does not navigate, logs the error
\* and shows no notification of any level.
C6_Reject ==
  [][ /\ Dispatches("reject") =>
           /\ mode = "view" /\ id \in Ids
           /\ lastCall' = <<[kind |-> "reject", id |-> id, variables |-> <<>>]>>
      /\ Succeeds("reject") => navs' = Append(navs, Back)
      /\ Fails("reject") =>
           /\ navs' = navs
           /\ console' = [console EXCEPT !["Rejection error:"] = @ + 1]
           /\ toasts' = toasts
    ]_vars

C6_Witness ==
  /\ status["reject"] = "error" /\ console["Rejection error:"] = 1
  /\ toasts = [level \in {"error", "success"} |-> 0] /\ navs = <<>>

\* C7: create and update are dispatched only in modes new and edit, approve
\* and reject only in mode view, and no instance dispatches from both groups.
C7_MutationsByMode ==
  /\ SubmitCalls > 0 => mode \in {"new", "edit"}
  /\ ReviewCalls > 0 => mode = "view"
  /\ ~(SubmitCalls > 0 /\ ReviewCalls > 0)

C7_Witness == calls["approve"] > 0 /\ calls["reject"] > 0

\* C8: in mode view the form data stays as loaded: the values are the fetched
\* report and no image is ever added or removed.
C8_ViewReadOnly ==
  (mode = "view" /\ screen = "form") =>
    /\ values = report[1]
    /\ images = <<>> /\ pending = <<>>

\* C9: the report is fetched exactly when mode is not new and an id is
\* present; mode new starts ready with empty fields; while the fetch is
\* pending only the spinner is shown and no operation acts; a fetched report
\* becomes the form's initial values; a failed fetch is not retried and shows
\* no notification.
C9_Load ==
  /\ [](/\ fetches > 0 <=> (mode # "new" /\ id # NoId)
        /\ mode = "new" =>
             /\ screen \in {"form", "gone"}
             /\ initialValues = <<EmptyValues>>
        /\ query = "loading" => screen = "spinner"
        /\ query = "success" => report # <<>> /\ initialValues = report
        /\ query = "error" =>
             fetches = 1 /\ toasts = [level \in {"error", "success"} |-> 0])
  /\ [][ /\ screen = "spinner" =>
              UNCHANGED <<formVars, imageVars, mutVars, effectVars>>
              \/ (query' = "success" /\ values' = report'[1]
                  /\ UNCHANGED <<errors, submitCount, imageVars, mutVars, effectVars>>)
         /\ query = "error" => fetches' = fetches
       ]_vars

C9_Witness == query = "error" /\ fetches = 1 /\ mode = "edit"

\* C10 as stated: at most one mutation is in flight and at most one navigation
\* results from one instance.
C10_OneInFlight == Cardinality(InFlight) <= 1 /\ Len(navs) <= 1

\* C10 amended: create/update is never in flight together with approve/reject
\* and create never together with update, but an approve and a reject may be
\* in flight together; every navigation is the onSuccess of one mutation.
C10_FamiliesExclusive ==
  /\ [](/\ ~(InFlight \cap {"create", "update"} # {}
             /\ InFlight \cap {"approve", "reject"} # {})
        /\ ~({"create", "update"} \subseteq InFlight))
  /\ [][ navs' # navs =>
           /\ Len(navs') = Len(navs) + 1
           /\ Cardinality({k \in Kinds : Succeeds(k)}) = 1
       ]_vars

C10_Witness == InFlight = {"approve", "reject"}

====
